---- MODULE Spec2Model ----
(***************************************************************************)
(* Seekable counter-mode (CTR) ReaderAt of alkemir/goaesctr.               *)
(*                                                                         *)
(* Two engines are modelled:                                               *)
(*   - the stateless engine of src/aesctr/ctr.go, whose ReadAt derives a   *)
(*     private ctrState per call (initCTR) from the engine's iv;           *)
(*   - the mutex-guarded engine of src/unnamed/part_000, whose ReadAt      *)
(*     resets one shared ctr/out/outUsed (setCTR) under x.rl.              *)
(*                                                                         *)
(* Byte slices that the code shares by reference (the caller's iv, the     *)
(* engine's iv, a call's ctr) live in mem, indexed by address, so that     *)
(* dup's copy is a different cell from its argument.                       *)
(***************************************************************************)
EXTENDS Integers, Sequences, FiniteSets, TLC

VARIABLES
    c,      \* the stateless engine: ctr struct of src/aesctr/ctr.go
    c0,     \* history: the engine as NewCTRReaderAt returned it
    iv0,    \* history: the iv bytes NewCTRReaderAt was given
    mem,    \* address -> bytes: the byte slices reachable through pointers
    call,   \* per caller: the frame of its ReadAt call
    state,  \* per ctrState slot: the ctrState of src/aesctr/ctr.go
    x       \* the stateful engine: ctr struct of src/unnamed/part_000

vars == <<c, c0, iv0, mem, call, state, x>>

----------------------------------------------------------------------------
(* Bounds of the model *)

\* length of the plaintext held (encrypted) by the source
DataLen == 1100

\* length of the longest buffer passed to ReadAt
MaxRead == 600

----------------------------------------------------------------------------
(* Program constants *)

streamBufferSize == 512

----------------------------------------------------------------------------
(* Bytes *)

\* the byte sequence a function on 1..n denotes
Bytes(f) == f \o <<>>

RECURSIVE XorBits(_, _, _)
XorBits(a, b, k) ==
    IF k = 0 THEN 0
    ELSE ((a + b) % 2) + 2 * XorBits(a \div 2, b \div 2, k - 1)

\* a[i] ^ b[i] on two bytes
XorTable == [a \in 0..255 |-> [b \in 0..255 |-> XorBits(a, b, 8)]]

XorByte(a, b) == XorTable[a][b]

\* sum of (2i + 1) * block[i] for lo <= i <= hi
RECURSIVE WeightedSum(_, _, _)
WeightedSum(block, lo, hi) ==
    IF lo > hi THEN 0
    ELSE IF lo = hi THEN (2 * lo + 1) * block[lo]
    ELSE LET mid == (lo + hi) \div 2
         IN  WeightedSum(block, lo, mid) + WeightedSum(block, mid + 1, hi)

\* c.b.Encrypt(dst, src): the block cipher, an opaque deterministic function
\* from one block to one block of bs bytes.
Encrypt(bs, block) ==
    LET t == WeightedSum(block, 1, Len(block)) % 256
    IN  Bytes([i \in 1..bs |-> ((t + 1) * (2 * i + 1) + 7 * i + (t * t) \div 3) % 256])

\* "Increment counter": for i := len(x.ctr) - 1; i >= 0; i-- { x.ctr[i]++;
\* if x.ctr[i] != 0 { break } }.  A loop state is [ctr, i, brk]; i counts
\* from 1.  The loops over a block run in chunks of iterations, which
\* bounds the depth of the evaluation and changes no result.
incStep(s) ==
    LET v == (s.ctr[s.i] + 1) % 256
    IN  [ctr |-> [s.ctr EXCEPT ![s.i] = v], i |-> s.i - 1, brk |-> v # 0]

incGo(s) == s.i >= 1 /\ ~s.brk

RECURSIVE incChunk(_, _)
incChunk(s, k) == IF k = 0 \/ ~incGo(s) THEN s ELSE incChunk(incStep(s), k - 1)

RECURSIVE incLoop(_)
incLoop(s) == IF incGo(s) THEN incLoop(incChunk(s, 32)) ELSE s

increment(ctr) == incLoop([ctr |-> ctr, i |-> Len(ctr), brk |-> FALSE]).ctr

\* the loop "for i := len(x.ctr) - 1; bN != 0 && i >= 0; i--" of initCTR:
\* adds bN to the big-endian counter, a byte at a time, the carry folded
\* back into bN.
\* addStep without "if x.ctr[i] < tmp { bN++ }": the carry is dropped
addStepNoCarry(s) ==
    [ctr |-> [s.ctr EXCEPT ![s.i] = (s.ctr[s.i] + (s.bN % 256)) % 256],
     bN  |-> s.bN \div 256,
     i   |-> s.i - 1]

addStep(s) ==
    LET mod == s.bN % 256
        tmp == s.ctr[s.i]
        v   == (tmp + mod) % 256
    IN  [ctr |-> [s.ctr EXCEPT ![s.i] = v],
         bN  |-> IF v < tmp THEN (s.bN \div 256) + 1 ELSE s.bN \div 256,
         i   |-> s.i - 1]

addGo(s) == s.bN # 0 /\ s.i >= 1

RECURSIVE addChunk(_, _)
addChunk(s, k) == IF k = 0 \/ ~addGo(s) THEN s ELSE addChunk(addStep(s), k - 1)

RECURSIVE addLoop(_)
addLoop(s) == IF addGo(s) THEN addLoop(addChunk(s, 32)) ELSE s

\* the counter after the loop: ctr + bN
addBlocks(ctr, bN) == addLoop([ctr |-> ctr, bN |-> bN, i |-> Len(ctr)]).ctr

Min(a, b) == IF a < b THEN a ELSE b

\* dst[i] = a[i] ^ b[i] for i < n = min(len(a), len(b)); the bytes written
xorBytes(a, b) ==
    Bytes([i \in 1..Min(Len(a), Len(b)) |-> XorByte(a[i], b[i])])

----------------------------------------------------------------------------
(* Memory *)

CallerIv == "caller"
EngineIv == "engine"
Addr == {CallerIv, EngineIv, "ctr1", "ctr2"}

\* dup returning its argument: no copy is made, the slices share their bytes
dupShared(p, q) == p

\* dup(p): q := make([]byte, len(p)); copy(q, p); return q.  p is the
\* address of the argument, q the address make returns; the result is the
\* address of the copy.
dup(p, q) == q

\* the memory after q := dup(p)
dupMem(m, p, q) == [m EXCEPT ![dup(p, q)] = m[p]]

----------------------------------------------------------------------------
(* The plaintext, and standard sequential counter mode (the reference) *)

\* plaintext[i] = byte(i % 256), i from 0
Plain(i) == i % 256

\* value of the last k bytes of the big-endian block, k <= 3
RECURSIVE LowVal(_, _)
LowVal(block, k) ==
    IF k = 0 THEN 0
    ELSE block[Len(block) - k + 1] * (256 ^ (k - 1)) + LowVal(block, k - 1)

\* the k big-endian bytes of v < 256^k
NumBytes(v, k) == Bytes([i \in 1..k |-> (v \div (256 ^ (k - i))) % 256])

Max(S) == CHOOSE m \in S : \A n \in S : n <= m

\* the first h bytes of the block plus a carry of 0 or 1 into byte h: the
\* carry stops at the last byte below 0xFF and zeroes the bytes after it
Ripple(block, h, carry) ==
    LET stop == Max({0} \cup {i \in 1..h : block[i] # 255})
    IN  Bytes([i \in 1..h |-> IF carry = 0 \/ i < stop THEN block[i]
                              ELSE IF i = stop THEN block[i] + 1 ELSE 0])

\* (iv + n) mod 2^(8 * len(iv)) as a big-endian block, for 0 <= n < 2^24
RefCounter(iv, n) ==
    LET k   == Min(3, Len(iv))
        low == LowVal(iv, k) + n
    IN  Ripple(iv, Len(iv) - k, (low \div (256 ^ k)) % 256) \o NumBytes(low % (256 ^ k), k)

\* keystream block k of counter mode: Encrypt(iv + k)
RefBlock(iv, k) == Encrypt(Len(iv), RefCounter(iv, k))

\* the first len bytes of text XORed with the keystream from byte position
\* from (0-based) on: byte j with keystream byte (from + j) mod B of
\* Encrypt(iv + floor((from + j) / B))
RefXor(text, iv, from) ==
    LET B      == Len(iv)
        first  == from \div B
        last   == (from + Len(text)) \div B
        blocks == Bytes([k \in 1..(last - first + 1) |-> RefBlock(iv, first + k - 1)])
    IN  Bytes([j \in 1..Len(text) |->
            XorByte(text[j], blocks[((from + j - 1) \div B) - first + 1][((from + j - 1) % B) + 1])])

\* the bytes of the plaintext at [off, off + len)
PlainSlice(off, len) == Bytes([j \in 1..len |-> Plain(off + j - 1)])

\* encrypter.XORKeyStream(ciphertext, plaintext) of the standard library's
\* sequential cipher.NewCTR(block, iv): the bytes of the ciphertext at
\* [off, off + len)
Ciphertext(iv, off, len) == RefXor(PlainSlice(off, len), iv, off)

----------------------------------------------------------------------------
(* The stateless engine: src/aesctr/ctr.go *)

Procs == {1, 2}

\* one ctrState kept in the engine and used by every call
StateShared(q) == 1

\* x := &ctrState{...}: every call of initCTR allocates its own ctrState
StateOf(q) == q

\* the cell make gives to the ctr of ctrState s
CtrCell(s) == IF s = 1 THEN "ctr1" ELSE "ctr2"

\* the refill loop "for remain <= len(x.out)-bs": here xs.out holds the
\* first remain bytes of the buffer resliced to its capacity xs.cap
fillStep(xs, bs) ==
    [xs EXCEPT !.out = @ \o Encrypt(bs, xs.ctr),
               !.ctr = increment(@),
               !.enc = Append(@, xs.ctr)]

fillGo(xs, bs) == Len(xs.out) <= xs.cap - bs

RECURSIVE fillChunk(_, _, _)
fillChunk(xs, bs, k) ==
    IF k = 0 \/ ~fillGo(xs, bs) THEN xs ELSE fillChunk(fillStep(xs, bs), bs, k - 1)

RECURSIVE fill(_, _)
fill(xs, bs) == IF fillGo(xs, bs) THEN fill(fillChunk(xs, bs, 32), bs) ELSE xs

\* (x *ctrState) refill(c), on a ctrState whose counter bytes are xs.ctr:
\* the unconsumed tail moves to the front, whole blocks are generated while
\* one fits below the capacity, outUsed = 0.  xs.enc logs the counter
\* blocks handed to c.b.Encrypt.
refill(xs, bs) ==
    fill([xs EXCEPT !.out = SubSeq(@, xs.outUsed + 1, Len(@)), !.outUsed = 0], bs)

\* the ctrState s with its counter bytes read from memory m
Load(st, m) == [ctr |-> m[st.ctr], out |-> st.out, cap |-> st.cap,
                outUsed |-> st.outUsed, enc |-> st.enc]

\* initCTR(c, bN, bOff) for ctrState slot s: the new ctrState and memory
initCTR(s, bN, bOff) ==
    LET a  == dup(c.iv, CtrCell(s))
        m1 == dupMem(mem, c.iv, CtrCell(s))
        x1 == refill([ctr |-> addBlocks(m1[a], bN), out |-> <<>>,
                      cap |-> c.bs, outUsed |-> 0, enc |-> <<>>], c.b)
    IN  [st |-> [ctr |-> a, out |-> SubSeq(x1.out, bOff + 1, Len(x1.out)),
                 cap |-> x1.cap - bOff, outUsed |-> 0, enc |-> x1.enc],
         m  |-> [m1 EXCEPT ![a] = x1.ctr]]

NoEngine == [made |-> "no", b |-> 0, iv |-> EngineIv, bs |-> 0]

NoState == [ctr |-> "ctr1", out |-> <<>>, cap |-> 0, outUsed |-> 0, enc |-> <<>>]

Idle == [pc |-> "idle", off |-> 0, p |-> <<>>, n |-> 0, err |-> "nil",
         pos |-> 0, mode |-> "reader", got |-> <<>>]

\* NewCTRReaderAt(block, iv, reader): block of size B, iv the caller's
\* slice, reader holding the counter-mode encryption of the plaintext under
\* iv.  The panic leaves no engine.
NewCTRReaderAt(B, iv) ==
    /\ c.made = "no"
    /\ iv0' = iv
    /\ IF Len(iv) # B
       THEN /\ c' = [c EXCEPT !.made = "panic", !.b = B]
            /\ mem' = [mem EXCEPT ![CallerIv] = iv]
       ELSE /\ c' = [made |-> "ok", b |-> B, iv |-> dup(CallerIv, EngineIv),
                     bs |-> IF streamBufferSize < B THEN B ELSE streamBufferSize]
            /\ mem' = dupMem([mem EXCEPT ![CallerIv] = iv], CallerIv, EngineIv)
    /\ c0' = c'
    /\ UNCHANGED <<call, state, x>>

\* the caller overwrites its own iv slice after construction
CallerMutatesIv ==
    /\ c.made = "ok"
    /\ mem[CallerIv] = iv0
    /\ mem' = [mem EXCEPT ![CallerIv] = Bytes([i \in 1..Len(iv0) |-> (iv0[i] + 90) % 256])]
    /\ UNCHANGED <<c, c0, iv0, call, state, x>>

\* (c *ctr) ReadAt(p, off), lines 93-97: bOff, bStart, bN and
\* state := initCTR(c, bN, bOff).  p is a fresh zeroed buffer of len bytes.
ReadAtEnter(q, off, len) ==
    /\ c.made = "ok"
    /\ call[q].pc = "idle"
    /\ LET bOff   == off % c.b
           bStart == off - bOff
           bN     == bStart \div c.b
           r      == initCTR(StateOf(q), bN, bOff)
       IN  /\ state' = [state EXCEPT ![StateOf(q)] = r.st]
           /\ mem' = r.m
    /\ call' = [call EXCEPT ![q] = [@ EXCEPT !.pc = "read", !.off = off,
                                     !.p = Bytes([i \in 1..len |-> 0])]]
    /\ UNCHANGED <<c, c0, iv0, x>>

\* c.r.ReadAt(buf, off) of the underlying source, which holds the DataLen
\* bytes of the ciphertext under the iv given at construction, by its kind:
\*   "reader": bytes.NewReader(ciphertext), as in the test: io.EOF at or
\*             past the end, and with every read shorter than the buffer;
\*   "short":  a source that reports fewer bytes available, with no error;
\*   "fail":   a source whose read fails, with nothing read.
SourceReadAt(mode, buf, off) ==
    LET avail == IF off >= DataLen THEN 0 ELSE DataLen - off
        n     == CASE mode = "reader" -> Min(Len(buf), avail)
                   [] mode = "short"  -> Min(Len(buf) \div 2, avail)
                   [] mode = "fail"   -> 0
    IN  [n   |-> n,
         err |-> CASE mode = "reader" ->
                        IF off >= DataLen \/ n < Len(buf) THEN "EOF" ELSE "nil"
                   [] mode = "short"  -> "nil"
                   [] mode = "fail"   -> "EIO",
         p   |-> Ciphertext(iv0, off, n) \o SubSeq(buf, n + 1, Len(buf))]

\* ReadAt, lines 99-102: n, err = c.r.ReadAt(p, off); if err != nil return
SourceRead(q, mode) ==
    /\ call[q].pc = "read"
    /\ mode = "short" => Len(call[q].p) >= 1
    /\ LET r == SourceReadAt(mode, call[q].p, call[q].off)
       IN  call' = [call EXCEPT ![q] =
                       [@ EXCEPT !.pc = IF r.err # "nil" THEN "done" ELSE "xor",
                                 !.n = r.n, !.err = r.err, !.p = r.p,
                                 !.got = r.p, !.mode = mode]]
    /\ UNCHANGED <<c, c0, iv0, mem, state, x>>

\* XORKeyStream, lines 80-83: the loop test "len(src) > 0" and the refill
\* test.  dst and src are both p[pos:].  The loop's exit is ReadAt's return.
XorCheck(q) ==
    /\ call[q].pc = "xor"
    /\ IF call[q].pos >= Len(call[q].p)
       THEN /\ call' = [call EXCEPT ![q].pc = "done"]
            /\ UNCHANGED <<state, mem>>
       ELSE LET s  == StateOf(q)
                xs == Load(state[s], mem)
                x1 == IF xs.outUsed >= Len(xs.out) - c.b THEN refill(xs, c.b) ELSE xs
            IN  /\ state' = [state EXCEPT ![s] = [@ EXCEPT !.out = x1.out,
                                 !.outUsed = x1.outUsed, !.enc = x1.enc]]
                /\ mem' = [mem EXCEPT ![state[s].ctr] = x1.ctr]
                /\ call' = [call EXCEPT ![q].pc = "xorbytes"]
    /\ UNCHANGED <<c, c0, iv0, x>>

\* XORKeyStream, lines 84-87: n := xorBytes(dst, src, x.out[x.outUsed:]) and
\* the three advances by n.  With n = 0 nothing the loop reads has changed,
\* so the loop repeats this iteration for ever: pc "spin".
XorBytes(q) ==
    /\ call[q].pc = "xorbytes"
    /\ LET s   == StateOf(q)
           pos == call[q].pos
           p   == call[q].p
           w   == xorBytes(SubSeq(p, pos + 1, Len(p)),
                           SubSeq(state[s].out, state[s].outUsed + 1, Len(state[s].out)))
           n   == Len(w)
       IN  /\ call' = [call EXCEPT ![q] =
                          [@ EXCEPT !.pc = IF n = 0 THEN "spin" ELSE "xor",
                                    !.pos = pos + n,
                                    !.p = SubSeq(p, 1, pos) \o w
                                             \o SubSeq(p, pos + n + 1, Len(p))]]
           /\ state' = [state EXCEPT ![s].outUsed = @ + n]
    /\ UNCHANGED <<c, c0, iv0, mem, x>>

\* ReadAt returns (n, err); the call's ctrState is garbage from here on
Return(q) ==
    /\ call[q].pc = "done"
    /\ call' = [call EXCEPT ![q] = Idle]
    /\ state' = [state EXCEPT ![StateOf(q)] = NoState]
    /\ mem' = [mem EXCEPT ![CtrCell(StateOf(q))] = <<>>]
    /\ UNCHANGED <<c, c0, iv0, x>>

----------------------------------------------------------------------------
(* Inputs *)

\* the engines built: <<block size, kind of iv>>
Engines == {<<1, "ones">>, <<2, "ones">>, <<2, "carry">>, <<3, "carry">>,
            <<16, "seq">>, <<16, "ones">>, <<256, "seq">>, <<300, "seq">>,
            <<512, "seq">>, <<600, "ones">>}

\* an iv of L bytes: 0, 1, 2, ... as in the test; all 0xFF; or 0x00 followed
\* by 0xFF bytes
IvBytes(kind, L) ==
    Bytes([i \in 1..L |-> CASE kind = "seq"   -> (i - 1) % 256
                            [] kind = "ones"  -> 255
                            [] kind = "carry" -> IF i = 1 /\ L > 1 THEN 0 ELSE 255])

Offsets == {0, 1, 17, 257, 514, DataLen - 2, DataLen}

Lens == {0, 3, MaxRead}

Modes == {"reader", "short", "fail"}

NoShared == [made |-> "no"]

Init ==
    /\ c = NoEngine
    /\ c0 = NoEngine
    /\ iv0 = <<>>
    /\ mem = [a \in Addr |-> <<>>]
    /\ call = [q \in Procs |-> Idle]
    /\ state = [s \in Procs |-> NoState]
    /\ x = NoShared

Next ==
    \/ \E e \in Engines, d \in {-1, 0, 1} :
           NewCTRReaderAt(e[1], IvBytes(e[2], e[1] + d))
    \/ CallerMutatesIv
    \/ \E off \in Offsets, len \in Lens : ReadAtEnter(1, off, len)
    \/ \E m \in Modes : SourceRead(1, m)
    \/ XorCheck(1)
    \/ XorBytes(1)
    \/ Return(1)

Spec == Init /\ [][Next]_vars

----------------------------------------------------------------------------
(* Claims about the stateless engine, one caller (Spec) *)

\* the call of q has ended: it returned, or it repeats one iteration for ever
Ended(q) == call[q].pc \in {"done", "spin"}

\* the request of q lies inside the plaintext and was served by the source
\* holding the ciphertext
InsidePlain(q) ==
    /\ call[q].mode = "reader"
    /\ call[q].off < DataLen
    /\ call[q].off + Len(call[q].p) <= DataLen

\* C1: every ReadAt whose offset and length lie inside the plaintext, over
\* the source holding the counter-mode ciphertext, returns len(p) bytes, no
\* error, and p equal to the plaintext slice, for every block cipher.
C1_RoundTrip ==
    \A q \in Procs :
        (Ended(q) /\ InsidePlain(q)) =>
            /\ call[q].pc = "done"
            /\ call[q].n = Len(call[q].p)
            /\ call[q].err = "nil"
            /\ call[q].p = PlainSlice(call[q].off, Len(call[q].p))

\* C3: when the source returns fewer bytes than len(p), or an error, ReadAt
\* returns with p holding exactly what the source left in it (no byte XORed).
C3_NoXorOnShortOrError ==
    \A q \in Procs :
        (Ended(q) /\ (call[q].n < Len(call[q].p) \/ call[q].err # "nil")) =>
            /\ call[q].pc = "done"
            /\ call[q].p = call[q].got

\* C4: ReadAt returns (bytes fetched, no error) or (0, the source's error):
\* a returned error always comes with the count 0.
C4_ZeroCountWithError ==
    \A q \in Procs :
        (call[q].pc = "done" /\ call[q].err # "nil") => call[q].n = 0

\* C5: ReadAt with a zero-length buffer returns (0, no error) at every
\* offset, also at or past the end of the source's data (the source being a
\* reader over the data, not a failing one).
C5_ZeroLength ==
    \A q \in Procs :
        (call[q].pc = "done" /\ Len(call[q].p) = 0 /\ call[q].mode = "reader") =>
            (call[q].n = 0 /\ call[q].err = "nil")

\* C6: NewCTRReaderAt panics exactly when len(iv) != BlockSize; an engine
\* it returns holds its own copy of iv, of block size, which no ReadAt and
\* no write of the caller to its iv slice changes; and ReadAt's result is
\* the XOR with the keystream of the iv given at construction, whatever the
\* caller's slice holds by then.
C6_Construction ==
    /\ c.made = "panic" <=> (c.made # "no" /\ Len(iv0) # c.b)
    /\ c.made = "ok" => (mem[c.iv] = iv0 /\ Len(mem[c.iv]) = c.b)
    /\ \A q \in Procs :
          (call[q].pc = "done" /\ call[q].err = "nil") =>
              call[q].p = RefXor(call[q].got, iv0, call[q].off)

\* a read has returned bytes after the caller overwrote its iv slice
C6_Witness ==
    /\ c.made = "ok"
    /\ mem[CallerIv] # iv0
    /\ \E q \in Procs : /\ call[q].pc = "done"
                        /\ call[q].err = "nil"
                        /\ Len(call[q].p) > 0

\* value of a big-endian block of at most 3 bytes
BEValue(block) == LowVal(block, Len(block))

\* C9: the counter blocks one call hands to Encrypt, from initCTR's fill
\* through every later refill, are (iv + bN + k) mod 2^(8B) for k = 0, 1,
\* 2, ... in big-endian with carry and silent wraparound; the counter left
\* is the next one; the unconsumed buffer is the tail of their keystream.
C9_Counters ==
    \A q \in Procs :
        call[q].pc \in {"read", "xor", "xorbytes", "done", "spin"} =>
            LET st == state[StateOf(q)]
                bN == call[q].off \div c.b
                nb == Len(st.enc)
            IN  /\ nb >= 1
                /\ \A k \in 1..nb :
                      /\ st.enc[k] = RefCounter(iv0, bN + k - 1)
                      /\ c.b <= 3 =>
                            BEValue(st.enc[k]) =
                                (BEValue(iv0) + bN + k - 1) % (256 ^ c.b)
                /\ mem[st.ctr] = RefCounter(iv0, bN + nb)
                /\ RefXor(st.out, iv0, (bN + nb) * c.b - Len(st.out))
                       = Bytes([i \in 1..Len(st.out) |-> 0])

\* a counter of all 0xFF bytes plus bN = 1 wrapped to zero in initCTR, and
\* a later refill went on from there
C9_Witness ==
    \E q \in Procs :
        /\ call[q].pc = "done"
        /\ call[q].off >= c.b
        /\ c.b > 1
        /\ iv0 = IvBytes("ones", c.b)
        /\ state[StateOf(q)].enc[1] = Bytes([i \in 1..c.b |-> 0])
        /\ Len(state[StateOf(q)].enc) > c.bs \div c.b

\* C10: once the source read has succeeded the XORKeyStream loop ends, for
\* every block size: after the refill test every iteration finds at least
\* one unconsumed keystream byte, and outUsed <= len(out) throughout.
C10_Progress ==
    \A q \in Procs :
        LET st == state[StateOf(q)]
        IN  /\ call[q].pc # "spin"
            /\ call[q].pc = "xorbytes" => Len(st.out) - st.outUsed >= 1
            /\ st.outUsed <= Len(st.out)

----------------------------------------------------------------------------
(* The stateless engine under concurrent callers (SpecConc) *)

ConcEngines == {<<16, "seq">>, <<2, "ones">>}

ConcOffsets == {1, 257}

ConcLens == {3, MaxRead}

\* the callers run ReadAt on one engine with no lock: any caller's next
\* step of ReadAt may come next
NextConc ==
    \/ \E e \in ConcEngines : NewCTRReaderAt(e[1], IvBytes(e[2], e[1]))
    \/ \E q \in Procs, off \in ConcOffsets, len \in ConcLens : ReadAtEnter(q, off, len)
    \/ \E q \in Procs : SourceRead(q, "reader")
    \/ \E q \in Procs : XorCheck(q)
    \/ \E q \in Procs : XorBytes(q)
    \/ \E q \in Procs : Return(q)

SpecConc == Init /\ [][NextConc]_vars

\* C7: in the stateless engine no ReadAt writes a field of the engine or
\* its iv bytes, and under every interleaving with other calls and after any
\* earlier calls, the bytes a call has XORed so far are those of the source
\* XORed with the keystream of (iv, offset): the result depends on the
\* cipher, the iv, the source's bytes, the offset and the length alone.
C7_Stateless ==
    /\ c.made = "ok" => (c = c0 /\ mem[c.iv] = iv0)
    /\ \A q \in Procs :
          call[q].pc \in {"xor", "xorbytes", "done"} =>
              call[q].p = RefXor(SubSeq(call[q].got, 1, call[q].pos), iv0, call[q].off)
                              \o SubSeq(call[q].got, call[q].pos + 1, Len(call[q].got))

\* two calls at different offsets are both in the middle of their
\* XORKeyStream loops, each past a part of a buffer longer than out
C7_Witness ==
    /\ call[1].pc = "xorbytes" /\ call[2].pc = "xor"
    /\ call[1].off # call[2].off
    /\ call[1].pos > 0 /\ call[1].pos < Len(call[1].p)
    /\ call[2].pos > 0 /\ call[2].pos < Len(call[2].p)

----------------------------------------------------------------------------
(* The stateful engine guarded by a mutex: src/unnamed/part_000 *)
(* x = [made, b, iv, ctr, out, cap, outUsed, rl]; rl is 0 when the mutex   *)
(* is free and the caller holding it otherwise.                            *)

\* NewCTRReaderAt of part_000: iv and ctr are copies of the caller's iv,
\* out is empty with capacity bufSize, the mutex is free
NewShared(B, iv) ==
    /\ x.made = "no"
    /\ iv0' = iv
    /\ IF Len(iv) # B
       THEN x' = [made |-> "panic"]
       ELSE x' = [made |-> "ok", b |-> B, iv |-> iv, ctr |-> iv, out |-> <<>>,
                  cap |-> IF streamBufferSize < B THEN B ELSE streamBufferSize,
                  outUsed |-> 0, rl |-> 0]
    /\ UNCHANGED <<c, c0, mem, call, state>>

\* setCTR's loop "for j := int64(0); j < bN; j++": bN increments
RECURSIVE incChunkTimes(_, _, _)
incChunkTimes(ctr, n, k) ==
    IF k = 0 \/ n = 0 THEN ctr ELSE incChunkTimes(increment(ctr), n - 1, k - 1)

RECURSIVE incTimes(_, _)
incTimes(ctr, n) ==
    IF n <= 0 THEN ctr ELSE incTimes(incChunkTimes(ctr, n, 32), n - Min(n, 32))

\* the loops "for remain <= len(x.out)-bs" of setCTR and refill: xx.out
\* holds the first remain bytes, lim is len(x.out) as the loop reads it
shFillStep(xx) ==
    [xx EXCEPT !.out = @ \o Encrypt(xx.b, xx.ctr), !.ctr = increment(@)]

shFillGo(xx, lim) == Len(xx.out) <= lim - xx.b

RECURSIVE shFillChunk(_, _, _)
shFillChunk(xx, lim, k) ==
    IF k = 0 \/ ~shFillGo(xx, lim) THEN xx ELSE shFillChunk(shFillStep(xx), lim, k - 1)

RECURSIVE shFill(_, _)
shFill(xx, lim) == IF shFillGo(xx, lim) THEN shFill(shFillChunk(xx, lim, 32), lim) ELSE xx

\* (x *ctr) setCTR(bN): outUsed = 0; ctr = iv + bN by bN increments; out
\* refilled from its start up to its current length, in whole blocks
setCTR(xx, bN) ==
    shFill([xx EXCEPT !.outUsed = 0, !.ctr = incTimes(xx.iv, bN), !.out = <<>>],
           Len(xx.out))

\* (x *ctr) refill(): as in the stateless engine, up to cap(x.out)
shRefill(xx) ==
    shFill([xx EXCEPT !.out = SubSeq(@, xx.outUsed + 1, Len(@)), !.outUsed = 0],
           xx.cap)

\* ReadAt going on without waiting for the mutex
MutexIgnored(rl) == TRUE

\* x.rl.Lock() returns when the mutex is free
MutexFree(rl) == rl = 0

\* ReadAt of part_000, lines 91-93: bOff, bStart, bN; the caller then
\* waits for the mutex
ShEnter(q, off, len) ==
    /\ x.made = "ok"
    /\ call[q].pc = "idle"
    /\ call' = [call EXCEPT ![q] = [@ EXCEPT !.pc = "lock", !.off = off,
                                     !.p = Bytes([i \in 1..len |-> 0])]]
    /\ UNCHANGED <<c, c0, iv0, mem, state, x>>

\* lines 95-96: x.rl.Lock(); defer x.rl.Unlock()
ShLock(q) ==
    /\ call[q].pc = "lock"
    /\ MutexFree(x.rl)
    /\ x' = [x EXCEPT !.rl = q]
    /\ call' = [call EXCEPT ![q].pc = "setctr"]
    /\ UNCHANGED <<c, c0, iv0, mem, state>>

\* line 98: x.setCTR(bN)
ShSetCTR(q) ==
    /\ call[q].pc = "setctr"
    /\ LET bOff   == call[q].off % x.b
           bStart == call[q].off - bOff
           bN     == bStart \div x.b
       IN  x' = setCTR(x, bN)
    /\ call' = [call EXCEPT ![q].pc = "read"]
    /\ UNCHANGED <<c, c0, iv0, mem, state>>

\* lines 100-103: n, err = x.r.ReadAt(p, off); if err != nil return
ShSourceRead(q, mode) ==
    /\ call[q].pc = "read"
    /\ LET r == SourceReadAt(mode, call[q].p, call[q].off)
       IN  call' = [call EXCEPT ![q] =
                       [@ EXCEPT !.pc = IF r.err # "nil" THEN "unlock" ELSE "xor",
                                 !.n = r.n, !.err = r.err, !.p = r.p,
                                 !.got = r.p, !.mode = mode]]
    /\ UNCHANGED <<c, c0, iv0, mem, state, x>>

\* XORKeyStream of part_000, lines 78-81: the loop test and the refill test
ShXorCheck(q) ==
    /\ call[q].pc = "xor"
    /\ IF call[q].pos >= Len(call[q].p)
       THEN /\ call' = [call EXCEPT ![q].pc = "unlock"]
            /\ UNCHANGED x
       ELSE /\ x' = IF x.outUsed >= Len(x.out) - x.b THEN shRefill(x) ELSE x
            /\ call' = [call EXCEPT ![q].pc = "xorbytes"]
    /\ UNCHANGED <<c, c0, iv0, mem, state>>

\* XORKeyStream of part_000, lines 82-85
ShXorBytes(q) ==
    /\ call[q].pc = "xorbytes"
    /\ LET pos == call[q].pos
           p   == call[q].p
           w   == xorBytes(SubSeq(p, pos + 1, Len(p)),
                           SubSeq(x.out, x.outUsed + 1, Len(x.out)))
           n   == Len(w)
       IN  /\ call' = [call EXCEPT ![q] =
                          [@ EXCEPT !.pc = IF n = 0 THEN "spin" ELSE "xor",
                                    !.pos = pos + n,
                                    !.p = SubSeq(p, 1, pos) \o w
                                             \o SubSeq(p, pos + n + 1, Len(p))]]
           /\ x' = [x EXCEPT !.outUsed = @ + n]
    /\ UNCHANGED <<c, c0, iv0, mem, state>>

\* either return of ReadAt: the deferred x.rl.Unlock() runs
ShUnlock(q) ==
    /\ call[q].pc = "unlock"
    /\ x' = [x EXCEPT !.rl = 0]
    /\ call' = [call EXCEPT ![q].pc = "done"]
    /\ UNCHANGED <<c, c0, iv0, mem, state>>

\* the caller has its result and may call again
ShReturn(q) ==
    /\ call[q].pc = "done"
    /\ call' = [call EXCEPT ![q] = Idle]
    /\ UNCHANGED <<c, c0, iv0, mem, state, x>>

ShEngines == {<<16, "seq">>}

ShOffsets == {15, 16, 17}

ShLens == {3, MaxRead}

ShModes == {"reader", "fail"}

NextShared ==
    \/ \E e \in ShEngines, d \in {0, 1} : NewShared(e[1], IvBytes(e[2], e[1] + d))
    \/ \E q \in Procs, off \in ShOffsets, len \in ShLens : ShEnter(q, off, len)
    \/ \E q \in Procs : ShLock(q)
    \/ \E q \in Procs : ShSetCTR(q)
    \/ \E q \in Procs, m \in ShModes : ShSourceRead(q, m)
    \/ \E q \in Procs : ShXorCheck(q)
    \/ \E q \in Procs : ShXorBytes(q)
    \/ \E q \in Procs : ShUnlock(q)
    \/ \E q \in Procs : ShReturn(q)

SpecShared == Init /\ [][NextShared]_vars

\* the steps of ReadAt between Lock and Unlock
Critical == {"setctr", "read", "xor", "xorbytes", "spin", "unlock"}

\* C2: in the mutex-guarded engine a ReadAt at a block boundary k*B, at
\* k*B - 1 and at k*B + 1 returns the plaintext slice at that offset.
C2_Boundary ==
    \A q \in Procs :
        (call[q].pc = "done" /\ call[q].err = "nil" /\ InsidePlain(q)) =>
            call[q].p = PlainSlice(call[q].off, Len(call[q].p))

\* C8: in the mutex-guarded engine at most one call is between Lock and
\* Unlock, the mutex is held by exactly that call and is free again after
\* every return (the source-error return too), and the bytes a call has
\* XORed so far are those it XORs when it runs alone: the source's bytes
\* XORed with the keystream that starts at the block of its offset.
C8_Mutex ==
    x.made = "ok" =>
        /\ Cardinality({q \in Procs : call[q].pc \in Critical}) <= 1
        /\ \A q \in Procs : call[q].pc \in Critical <=> x.rl = q
        /\ \A q \in Procs :
              (call[q].pc \in {"xor", "xorbytes", "unlock", "done"} /\ call[q].err = "nil") =>
                  call[q].p =
                      RefXor(SubSeq(call[q].got, 1, call[q].pos), iv0,
                             (call[q].off \div x.b) * x.b)
                          \o SubSeq(call[q].got, call[q].pos + 1, Len(call[q].got))

\* a call has returned the source's error, and the other call holds the
\* mutex and is past a part of its buffer
C8_Witness ==
    \E q \in Procs, r \in Procs :
        /\ call[q].pc = "done" /\ call[q].err # "nil"
        /\ call[r].pc = "xorbytes" /\ call[r].pos > 0
        /\ x.rl = r

====
